---- MODULE Spec2Model ----
(***************************************************************************)
(* ImdbSpider (spiders/imdb_spider.py): three callbacks chained by the     *)
(* requests they yield.  parse -> parse_full_credits -> parse_actor_page.  *)
(*                                                                         *)
(* A document is modelled by what the spider's selectors return on it:     *)
(*   base      the <base href> elements (read by response.urljoin),        *)
(*   links     the attribute dictionaries of the nodes "td.primary_photo a"*)
(*   itemprop  the text nodes ".itemprop::text",                           *)
(*   sections  the nodes "div.filmo-category-section", each given by its   *)
(*             text nodes "div.filmo-row b a::text".                       *)
(* A URL string is modelled by its parsed form (scheme, host, path).       *)
(***************************************************************************)
EXTENDS Integers, Sequences, FiniteSets, Bags, TLC

VARIABLES
    site,        \* URL -> document served there (fixed once fetched)
    dupefilter,  \* engine setting: drop requests to URLs already requested
    seen,        \* URLs the duplicate filter has recorded
    queue,       \* bag of scheduled requests not yet downloaded
    inbox,       \* bag of downloaded responses whose callback has not run
    records,     \* items handed to the feed exporter, in emission order
    failed,      \* callback invocations that raised, in order
    calls,       \* callback invocations, in order
    last         \* the most recent callback invocation and its output

vars == <<site, dupefilter, seen, queue, inbox, records, failed, calls, last>>

\* ------------------------------------------------------------------ bounds
MaxLinks == 2        \* link nodes on a cast page
MaxNames == 2        \* .itemprop text nodes on a page
MaxSections == 2     \* credit-category sections on a page
MaxTitles == 2       \* title nodes in one section

SeqUpTo(S, n) == UNION {[1..k -> S] : k \in 0..n}

\* ------------------------------------------------------------ URL strings
Url(scheme, host, root, path, dir) ==
    [scheme |-> scheme, host |-> host, root |-> root, path |-> path, dir |-> dir]

\* start_urls[0] = 'https://www.imdb.com/title/tt1844624/'
start_url == Url("https", "www.imdb.com", TRUE, <<"title", "tt1844624">>, TRUE)

\* the literal "fullcredits"
fullcredits == Url("", "", FALSE, <<"fullcredits">>, FALSE)

\* urllib.parse.uses_relative, as far as the model's schemes go
uses_relative == {"", "http", "https"}

Front(s) == IF s = <<>> THEN <<>> ELSE SubSeq(s, 1, Len(s) - 1)

\* urljoin gone wrong: the relative path is appended to the whole base path,
\* the base's last segment kept even without a trailing slash
urljoin_append(base, url) ==
    LET scheme == IF url.scheme = "" THEN base.scheme ELSE url.scheme
    IN  IF scheme # base.scheme \/ scheme \notin uses_relative THEN url
        ELSE IF url.host # "" THEN [url EXCEPT !.scheme = scheme]
        ELSE IF url.root THEN
            Url(scheme, base.host, TRUE, url.path, url.dir)
        ELSE Url(scheme, base.host, base.root, base.path \o url.path, url.dir)

\* urllib.parse.urljoin(base, url), which response.urljoin delegates to
urljoin(base, url) ==
    LET scheme == IF url.scheme = "" THEN base.scheme ELSE url.scheme
    IN  IF scheme # base.scheme \/ scheme \notin uses_relative THEN url
        ELSE IF url.host # "" THEN [url EXCEPT !.scheme = scheme]
        ELSE IF url.root THEN
            Url(scheme, base.host, TRUE, url.path, url.dir)
        ELSE IF url.path = <<>> THEN base
        ELSE
            Url(scheme, base.host, base.root,
                (IF base.dir THEN base.path ELSE Front(base.path)) \o url.path,
                url.dir)

\* the base URL of a response: its first <base href>, resolved against the
\* response's URL, or the response's URL when the document declares none
get_base_url(response) ==
    IF response.doc.base = <<>> THEN response.url
    ELSE urljoin(response.url, response.doc.base[1])

\* response.urljoin(url)
response_urljoin(response, url) == urljoin(get_base_url(response), url)

\* ------------------------------------------------------- callback outputs
NoError == ""

Output(requests, items, error) ==
    [requests |-> requests, items |-> items, error |-> error]

Request(url, callback) == [url |-> url, callback |-> callback]

\* scrapy.Request(url) raises ValueError unless the URL holds "://"
RequestRaises(url) == url.scheme = "" \/ url.host = ""

\* Python values of the "actor" field
None == [type |-> "NoneType", value |-> ""]
Str(s) == [type |-> "str", value |-> s]

\* SelectorList.get(): the first match, or None
get(texts) == IF texts = <<>> THEN None ELSE Str(texts[1])

\* a.attrib is a dictionary, here a set of <<name, value>> pairs
HasAttr(attrib, k) == \E p \in attrib : p[1] = k
Attr(attrib, k) == (CHOOSE p \in attrib : p[1] = k)[2]

\* parse gone wrong: the cast page is handed to parse_actor_page
parse_skips_stage(response) ==
    LET cast_page == response_urljoin(response, fullcredits)
    IN  IF RequestRaises(cast_page)
        THEN Output(<<>>, <<>>, "ValueError")
        ELSE Output(<<Request(cast_page, "parse_actor_page")>>, <<>>, NoError)

\* ---------------------------------------------------------------- parse
parse(response) ==
    LET cast_page == response_urljoin(response, fullcredits)
    IN  IF RequestRaises(cast_page)
        THEN Output(<<>>, <<>>, "ValueError")
        ELSE Output(<<Request(cast_page, "parse_full_credits")>>, <<>>, NoError)

\* --------------------------------------------------- parse_full_credits
\* the requests yielded for the links from position i on, up to the first
\* link whose Request cannot be built
RECURSIVE YieldLinks(_, _, _)
YieldLinks(response, cast_links, i) ==
    IF i > Len(cast_links) THEN Output(<<>>, <<>>, NoError)
    ELSE LET full_cast_link == response_urljoin(response, cast_links[i])
         IN  IF RequestRaises(full_cast_link)
             THEN Output(<<>>, <<>>, "ValueError")
             ELSE LET rest == YieldLinks(response, cast_links, i + 1)
                  IN  Output(<<Request(full_cast_link, "parse_actor_page")>>
                                 \o rest.requests,
                             <<>>, rest.error)

\* parse_full_credits gone wrong: "return" for "yield", only the first link
parse_full_credits_first_only(response) ==
    LET nodes == response.doc.links
    IN  IF \E i \in 1..Len(nodes) : ~HasAttr(nodes[i], "href")
        THEN Output(<<>>, <<>>, "KeyError")
        ELSE YieldLinks(response,
                        [i \in 1..(IF nodes = <<>> THEN 0 ELSE 1) |->
                            Attr(nodes[i], "href")], 1)

\* parse_full_credits gone wrong: the hrefs are read lazily, link by link
RECURSIVE parse_full_credits_lazy_from(_, _)
parse_full_credits_lazy_from(response, i) ==
    LET nodes == response.doc.links
    IN  IF i > Len(nodes) THEN Output(<<>>, <<>>, NoError)
        ELSE IF ~HasAttr(nodes[i], "href") THEN Output(<<>>, <<>>, "KeyError")
        ELSE LET full_cast_link == response_urljoin(response, Attr(nodes[i], "href"))
             IN  IF RequestRaises(full_cast_link)
                 THEN Output(<<>>, <<>>, "ValueError")
                 ELSE LET rest == parse_full_credits_lazy_from(response, i + 1)
                      IN  Output(<<Request(full_cast_link, "parse_actor_page")>>
                                     \o rest.requests,
                                 <<>>, rest.error)

parse_full_credits_lazy(response) == parse_full_credits_lazy_from(response, 1)

parse_full_credits(response) ==
    LET nodes == response.doc.links
    IN  IF \E i \in 1..Len(nodes) : ~HasAttr(nodes[i], "href")
        THEN Output(<<>>, <<>>, "KeyError")
        ELSE YieldLinks(response,
                        [i \in 1..Len(nodes) |-> Attr(nodes[i], "href")], 1)

\* ----------------------------------------------------- parse_actor_page
ItemsFor(actor_name, movies_list) ==
    [i \in 1..Len(movies_list) |->
        [actor |-> actor_name, movie_or_TV_name |-> movies_list[i]]]

\* parse_actor_page gone wrong: a title already listed is not emitted again
parse_actor_page_unique(response) ==
    LET sections == response.doc.sections
    IN  IF sections = <<>> THEN Output(<<>>, <<>>, "IndexError")
        ELSE LET t == sections[1]
                 keep == {i \in 1..Len(t) : \A j \in 1..(i - 1) : t[j] # t[i]}
             IN  Output(<<>>,
                        ItemsFor(get(response.doc.itemprop),
                                 [i \in 1..Cardinality(keep) |->
                                    t[CHOOSE k \in keep :
                                        Cardinality({m \in keep : m < k}) = i - 1]]),
                        NoError)

\* parse_actor_page gone wrong: the last section instead of the first
parse_actor_page_last_section(response) ==
    LET sections == response.doc.sections
    IN  IF sections = <<>> THEN Output(<<>>, <<>>, "IndexError")
        ELSE Output(<<>>,
                    ItemsFor(get(response.doc.itemprop), sections[Len(sections)]),
                    NoError)

\* parse_actor_page gone wrong: a missing name raises
parse_actor_page_name_required(response) ==
    LET sections == response.doc.sections
    IN  IF response.doc.itemprop = <<>> THEN Output(<<>>, <<>>, "AttributeError")
        ELSE IF sections = <<>> THEN Output(<<>>, <<>>, "IndexError")
        ELSE Output(<<>>, ItemsFor(get(response.doc.itemprop), sections[1]), NoError)

\* parse_actor_page gone wrong: no section is taken as an empty section
parse_actor_page_no_sections_ok(response) ==
    LET sections == response.doc.sections
    IN  IF sections = <<>> THEN Output(<<>>, <<>>, NoError)
        ELSE Output(<<>>, ItemsFor(get(response.doc.itemprop), sections[1]), NoError)

parse_actor_page(response) ==
    LET actor_name == get(response.doc.itemprop)
        sections == response.doc.sections
    IN  IF sections = <<>>
        THEN Output(<<>>, <<>>, "IndexError")
        ELSE LET movies_list == sections[1]
             IN  Output(<<>>, ItemsFor(actor_name, movies_list), NoError)

Callbacks == {"parse", "parse_full_credits", "parse_actor_page"}

Handle(callback, response) ==
    CASE callback = "parse" -> parse(response)
      [] callback = "parse_full_credits" -> parse_full_credits(response)
      [] callback = "parse_actor_page" -> parse_actor_page(response)

\* -------------------------------------------------------------- documents
Doc(base, links, itemprop, sections) ==
    [base |-> base, links |-> links, itemprop |-> itemprop, sections |-> sections]

Response(url, doc) == [url |-> url, doc |-> doc]

Names == {"Jane Doe", "John Roe"}
Titles == {"Film A", "Film B"}

\* <base href> declarations: none, another http(s) location, a non-http one
Bases ==
    { <<>>,
      <<Url("https", "m.imdb.com", TRUE, <<"mobile">>, TRUE)>>,
      <<Url("mailto", "", FALSE, <<"help@imdb.com">>, FALSE)>> }

\* "td.primary_photo a" nodes: without href, href="/name/nm0000001/",
\* href="nm0000002/", href="mailto:..."
Nodes ==
    { {},
      {<<"href", Url("", "", TRUE, <<"name", "nm0000001">>, TRUE)>>},
      {<<"href", Url("", "", FALSE, <<"nm0000002">>, TRUE)>>},
      {<<"href", Url("mailto", "", FALSE, <<"cast@imdb.com">>, FALSE)>>} }

TitlePages == {Doc(b, <<>>, <<>>, <<>>) : b \in Bases}

CastPages ==
    {Doc(b, l, <<>>, <<>>) : b \in Bases, l \in SeqUpTo(Nodes, MaxLinks)}

ProfilePages ==
    {Doc(<<>>, <<>>, n, s) :
        n \in SeqUpTo(Names, MaxNames),
        s \in SeqUpTo(SeqUpTo(Titles, MaxTitles), MaxSections)}

\* the profile pages the crawl's site serves
ProfileFixtures ==
    { Doc(<<>>, <<>>, <<"Jane Doe">>, <<<<"Film A", "Film B">>>>),
      Doc(<<>>, <<>>, <<>>, <<<<"Film A">>>>),
      Doc(<<>>, <<>>, <<"John Roe">>, <<>>),
      Doc(<<>>, <<>>, <<>>, <<>>),
      Doc(<<>>, <<>>, <<"John Roe">>, <<<<"Film B">>, <<"Film A">>>>) }

\* what a URL requested for a callback may serve
PagesFor(callback) ==
    CASE callback = "parse" -> TitlePages
      [] callback = "parse_full_credits" -> CastPages
      [] callback = "parse_actor_page" -> ProfileFixtures

\* ------------------------------------------------------------- the engine
\* the duplicate filter gone wrong: requests are told apart by host alone
RECURSIVE EnqueueByHost(_, _, _, _)
EnqueueByHost(requests, i, q, s) ==
    IF i > Len(requests) THEN [queue |-> q, seen |-> s]
    ELSE LET r == requests[i]
         IN  IF \E u \in s : u.host = r.url.host
             THEN EnqueueByHost(requests, i + 1, q, s)
             ELSE EnqueueByHost(requests, i + 1, q (+) SetToBag({r}), s \cup {r.url})

\* the scheduler's enqueue_request over the requests a callback yielded:
\* with the duplicate filter on, a request to a recorded URL is dropped
RECURSIVE Enqueue(_, _, _, _)
Enqueue(requests, i, q, s) ==
    IF i > Len(requests) THEN [queue |-> q, seen |-> s]
    ELSE LET r == requests[i]
         IN  IF dupefilter /\ r.url \in s
             THEN Enqueue(requests, i + 1, q, s)
             ELSE Enqueue(requests, i + 1, q (+) SetToBag({r}), s \cup {r.url})

NoCall == [callback |-> "", response |-> Response(start_url, Doc(<<>>, <<>>, <<>>, <<>>)),
           out |-> Output(<<>>, <<>>, NoError)]

\* the start request is built from start_urls with dont_filter=True
Init ==
    /\ site = <<>>
    /\ dupefilter \in BOOLEAN
    /\ seen = {}
    /\ queue = SetToBag({Request(start_url, "parse")})
    /\ inbox = EmptyBag
    /\ records = <<>>
    /\ failed = <<>>
    /\ calls = <<>>
    /\ last = NoCall

\* the downloader fetches a scheduled request; a URL serves the same
\* document every time it is fetched
Download(r) ==
    /\ BagIn(r, queue)
    /\ \E doc \in (IF r.url \in DOMAIN site THEN {site[r.url]}
                   ELSE PagesFor(r.callback)) :
        /\ site' = (IF r.url \in DOMAIN site THEN site ELSE site @@ (r.url :> doc))
        /\ inbox' = inbox (+) SetToBag({[callback |-> r.callback,
                                         response |-> Response(r.url, doc)]})
    /\ queue' = queue (-) SetToBag({r})
    /\ UNCHANGED <<dupefilter, seen, records, failed, calls, last>>

\* the engine gone wrong: an exception in a callback ends the run, dropping
\* what is still pending
CallAbortsOnError(x) ==
    /\ BagIn(x, inbox)
    /\ LET out == Handle(x.callback, x.response)
           enq == Enqueue(out.requests, 1, queue, seen)
       IN  /\ queue' = (IF out.error = NoError THEN enq.queue ELSE EmptyBag)
           /\ inbox' = (IF out.error = NoError THEN inbox (-) SetToBag({x})
                        ELSE EmptyBag)
           /\ seen' = enq.seen
           /\ records' = records \o out.items
           /\ failed' = (IF out.error = NoError THEN failed
                         ELSE Append(failed, [callback |-> x.callback,
                                              url |-> x.response.url,
                                              error |-> out.error]))
           /\ calls' = Append(calls, [callback |-> x.callback,
                                      url |-> x.response.url])
           /\ last' = [callback |-> x.callback, response |-> x.response,
                       out |-> out]
    /\ UNCHANGED <<site, dupefilter>>

\* the engine runs the callback of a downloaded response: the requests it
\* yields are scheduled, the items it yields are exported, and an exception
\* it raises is logged
Call(x) ==
    /\ BagIn(x, inbox)
    /\ LET out == Handle(x.callback, x.response)
           enq == Enqueue(out.requests, 1, queue, seen)
       IN  /\ queue' = enq.queue
           /\ seen' = enq.seen
           /\ records' = records \o out.items
           /\ failed' = (IF out.error = NoError THEN failed
                         ELSE Append(failed, [callback |-> x.callback,
                                              url |-> x.response.url,
                                              error |-> out.error]))
           /\ calls' = Append(calls, [callback |-> x.callback,
                                      url |-> x.response.url])
           /\ last' = [callback |-> x.callback, response |-> x.response,
                       out |-> out]
    /\ inbox' = inbox (-) SetToBag({x})
    /\ UNCHANGED <<site, dupefilter>>

CallParse ==
    \E x \in BagToSet(inbox) : x.callback = "parse" /\ Call(x)

CallParseFullCredits ==
    \E x \in BagToSet(inbox) : x.callback = "parse_full_credits" /\ Call(x)

CallParseActorPage ==
    \E x \in BagToSet(inbox) : x.callback = "parse_actor_page" /\ Call(x)

Fetch == \E r \in BagToSet(queue) : Download(r)

Next == Fetch \/ CallParse \/ CallParseFullCredits \/ CallParseActorPage

Spec == Init /\ [][Next]_vars

\* the engine keeps downloading and keeps running callbacks
FairSpec == Spec /\ WF_vars(Next)

\* --------------------------------------------- one callback, any response
UnitUrls ==
    { start_url,
      Url("https", "www.imdb.com", TRUE, <<"title", "tt1844624">>, FALSE),
      Url("https", "www.imdb.com", TRUE, <<"title", "tt1844624", "fullcredits">>, FALSE) }

UnitInputs ==
    (Callbacks \X UnitUrls \X (TitlePages \cup CastPages \cup ProfileFixtures))
        \cup ({"parse_actor_page"} \X {start_url} \X ProfilePages)

InitUnit ==
    /\ site = <<>>
    /\ dupefilter \in BOOLEAN
    /\ seen = {}
    /\ queue = EmptyBag
    /\ \E in \in UnitInputs :
        inbox = SetToBag({[callback |-> in[1], response |-> Response(in[2], in[3])]})
    /\ records = <<>>
    /\ failed = <<>>
    /\ calls = <<>>
    /\ last = NoCall

NextUnit == CallParse \/ CallParseFullCredits \/ CallParseActorPage

SpecUnit == InitUnit /\ [][NextUnit]_vars

\* ================================================================= claims
Range(s) == {s[i] : i \in 1..Len(s)}

TitlesOf(items) == [i \in 1..Len(items) |-> items[i].movie_or_TV_name]

Finished == queue = EmptyBag /\ inbox = EmptyBag

CallsTo(callback) == Cardinality({i \in 1..Len(calls) : calls[i].callback = callback})

\* the response of the callback invocation a step has just made
Ran == [callback |-> last'.callback, response |-> last'.response]

\* C1: a profile page with display name N whose first section lists the
\* titles t1..tk yields exactly the k records {actor: N, movie_or_TV_name: ti}
\* in section order, nothing dropped, added or deduplicated, and no request.
C1_RecordsPerTitle ==
    (/\ last.callback = "parse_actor_page"
     /\ last.response.doc.itemprop # <<>>
     /\ last.response.doc.sections # <<>>)
    => LET N == last.response.doc.itemprop[1]
           t == last.response.doc.sections[1]
       IN  /\ last.out.error = NoError
           /\ last.out.requests = <<>>
           /\ queue = EmptyBag
           /\ Len(last.out.items) = Len(t)
           /\ \A i \in 1..Len(t) :
                last.out.items[i] = [actor |-> Str(N), movie_or_TV_name |-> t[i]]
           /\ records = last.out.items

C1_Witness ==
    /\ last.callback = "parse_actor_page"
    /\ last.response.doc.itemprop = <<"Jane Doe", "John Roe">>
    /\ last.response.doc.sections # <<>>
    /\ last.response.doc.sections[1] = <<"Film A", "Film B">>
    /\ records = << [actor |-> Str("Jane Doe"), movie_or_TV_name |-> "Film A"],
                    [actor |-> Str("Jane Doe"), movie_or_TV_name |-> "Film B"] >>

RECURSIVE BagOfSeq(_)
BagOfSeq(s) ==
    IF s = <<>> THEN EmptyBag ELSE SetToBag({Head(s)}) (+) BagOfSeq(Tail(s))

\* the hrefs of a cast page's link nodes, when every node has one
Hrefs(doc) == [i \in 1..Len(doc.links) |-> Attr(doc.links[i], "href")]

\* every link node has an href, and each href resolves against the
\* response's base URL to a URL a Request can be built for
AllLinksFollowable(response) ==
    /\ \A i \in 1..Len(response.doc.links) : HasAttr(response.doc.links[i], "href")
    /\ \A i \in 1..Len(response.doc.links) :
          ~RequestRaises(urljoin(get_base_url(response), Hrefs(response.doc)[i]))

C4_NoSectionsFailsContained ==
    [][ (/\ calls' # calls
         /\ last'.callback = "parse_actor_page"
         /\ last'.response.doc.sections = <<>>)
        => /\ last'.out.error = "IndexError"
           /\ last'.out.items = <<>>
           /\ last'.out.requests = <<>>
           /\ records' = records
           /\ failed' = Append(failed, [callback |-> "parse_actor_page",
                                        url |-> last'.response.url,
                                        error |-> "IndexError"])
           /\ queue' = queue
           /\ inbox' = inbox (-) SetToBag({Ran})
      ]_vars

C4_Witness ==
    /\ last.callback = "parse_actor_page"
    /\ last.response.doc.sections = <<>>
    /\ last.response.doc.itemprop # <<>>
    /\ last.out.error = "IndexError"
    /\ records = <<>>
    /\ inbox # EmptyBag

\* what the profile page at a URL yields
ItemsAt(url) == parse_actor_page(Response(url, site[url])).items

\* the records of the profile-page invocations, in invocation order
RECURSIVE ItemsOfCalls(_)
ItemsOfCalls(cs) ==
    IF cs = <<>> THEN <<>>
    ELSE (IF Head(cs).callback = "parse_actor_page" THEN ItemsAt(Head(cs).url)
          ELSE <<>>) \o ItemsOfCalls(Tail(cs))

\* the profile requests the invoked cast-list pages yielded
CastLinks ==
    UNION { Range(parse_full_credits(Response(calls[i].url, site[calls[i].url])).requests) :
            i \in {j \in 1..Len(calls) : calls[j].callback = "parse_full_credits"} }

FailedAt(url) == \E i \in 1..Len(failed) : failed[i].url = url

\* C5: a failure on one profile page leaves every other pending request and
\* every exported record untouched, and the crawl ends with every profile
\* page a cast-list page requested processed, the exported records being
\* exactly what the processed pages yield.
C5_FailuresArePageLocal ==
    /\ [][ (calls' # calls /\ last'.callback = "parse_actor_page"
            /\ last'.out.error # NoError)
           => /\ queue' = queue
              /\ inbox' = inbox (-) SetToBag({Ran})
              /\ records' = records
              /\ seen' = seen
         ]_vars
    /\ <>[](/\ Finished
            /\ \A r \in CastLinks :
                 \E i \in 1..Len(calls) :
                    calls[i] = [callback |-> "parse_actor_page", url |-> r.url]
            /\ records = ItemsOfCalls(calls))

\* a failed profile page and a sibling whose records were exported after it
C5_Witness ==
    /\ Finished
    /\ Len(calls) = 4
    /\ calls[3].callback = "parse_actor_page"
    /\ FailedAt(calls[3].url)
    /\ calls[4].url # calls[3].url
    /\ ItemsAt(calls[4].url) # <<>>
    /\ records = ItemsAt(calls[4].url)

SiteProfileRequests ==
    LET castRequests == Range(parse(Response(start_url, site[start_url])).requests)
    IN  UNION { Range(parse_full_credits(Response(c.url, site[c.url])).requests) :
                c \in castRequests }

\* C7: for fixed page contents, every order of processing the pending
\* requests ends with the same set of records, the one the site determines:
\* the records of the profile pages its cast page links to.
C7_SameRecordsInEveryOrder ==
    Finished
    => /\ \A p \in SiteProfileRequests : p.url \in DOMAIN site
       /\ Range(records) = UNION { Range(ItemsAt(p.url)) : p \in SiteProfileRequests }

\* two profile pages processed in the order opposite to the cast list's
C7_Witness ==
    /\ Finished
    /\ Len(calls) = 4
    /\ LET links == parse_full_credits(
                        Response(calls[2].url, site[calls[2].url])).requests
       IN  /\ Len(links) = 2
           /\ calls[3].url = links[2].url
           /\ calls[4].url = links[1].url
    /\ ItemsAt(calls[3].url) # <<>>
    /\ ItemsAt(calls[4].url) # <<>>
    /\ Range(ItemsAt(calls[3].url)) # Range(ItemsAt(calls[4].url))

\* C8: a profile page with no name node and at least one section does not
\* fail: one record per title of the first section, each with a missing
\* actor value, as many as with a name present.
C8_MissingNameTolerated ==
    (/\ last.callback = "parse_actor_page"
     /\ last.response.doc.itemprop = <<>>
     /\ last.response.doc.sections # <<>>)
    => LET t == last.response.doc.sections[1]
       IN  /\ last.out.error = NoError
           /\ failed = <<>>
           /\ Len(records) = Len(t)
           /\ \A i \in 1..Len(t) :
                records[i] = [actor |-> None, movie_or_TV_name |-> t[i]]

C8_Witness ==
    /\ last.callback = "parse_actor_page"
    /\ last.response.doc.itemprop = <<>>
    /\ records = << [actor |-> None, movie_or_TV_name |-> "Film A"],
                    [actor |-> None, movie_or_TV_name |-> "Film A"] >>

\* the callback each callback's requests are handled by
Downstream(callback) ==
    CASE callback = "parse" -> {"parse_full_credits"}
      [] callback = "parse_full_credits" -> {"parse_actor_page"}
      [] OTHER -> {}

\* C9: requests flow downstream (parse requests only parse_full_credits,
\* parse_full_credits only parse_actor_page, parse_actor_page nothing), parse
\* runs at most once, parse_full_credits at most once, parse_actor_page at
\* most once per link the cast page requested, and the crawl ends with no
\* pending request, parse having run once.
C9_DownstreamAndTerminates ==
    /\ [](/\ \A i \in 1..Len(last.out.requests) :
               last.out.requests[i].callback \in Downstream(last.callback)
          /\ \A r \in BagToSet(queue) : r.callback # "parse" \/ calls = <<>>
          /\ CallsTo("parse") <= 1
          /\ CallsTo("parse_full_credits") <= 1
          /\ \A i \in 1..Len(calls) :
               calls[i].callback = "parse_full_credits"
               => CallsTo("parse_actor_page")
                    <= Len(parse_full_credits(
                              Response(calls[i].url, site[calls[i].url])).requests))
    /\ <>[](Finished /\ CallsTo("parse") = 1)

C9_Witness ==
    /\ Finished
    /\ CallsTo("parse") = 1
    /\ CallsTo("parse_full_credits") = 1
    /\ CallsTo("parse_actor_page") = 2
    /\ ~dupefilter
    /\ calls[3].url = calls[4].url

\* C10: if any matched link node has no href, parse_full_credits fails
\* having requested nothing, even when other matched links are valid.
C10_AllOrNothing ==
    (/\ last.callback = "parse_full_credits"
     /\ \E i \in 1..Len(last.response.doc.links) :
           ~HasAttr(last.response.doc.links[i], "href"))
    => /\ last.out.error = "KeyError"
       /\ last.out.requests = <<>>
       /\ queue = EmptyBag
       /\ Len(failed) = 1

C10_Witness ==
    /\ last.callback = "parse_full_credits"
    /\ Len(last.response.doc.links) = 2
    /\ HasAttr(last.response.doc.links[1], "href")
    /\ ~RequestRaises(response_urljoin(last.response,
                                       Attr(last.response.doc.links[1], "href")))
    /\ ~HasAttr(last.response.doc.links[2], "href")
    /\ last.out.error = "KeyError"
    /\ queue = EmptyBag

====
